---- MODULE Spec2Model ----
(***************************************************************************)
(* The todo GraphQL worker: five resolvers (todos, todo, createTodo,       *)
(* updateTodo, deleteTodo) over one D1 table.  A resolver runs its         *)
(* validation synchronously, binds one prepared statement, awaits the      *)
(* store and finishes.  The await is the only suspension point, so a call  *)
(* is two steps: the resolver up to the await, then the statement in the   *)
(* store together with the rest of the resolver.  The resolvers run        *)
(* inside the worker's fetch handler, which answers a request itself       *)
(* (preflight, missing store binding, escaped exception) or hands it to    *)
(* the GraphQL host and decorates the host's response.                     *)
(***************************************************************************)
EXTENDS Integers, Sequences, FiniteSets, TLC

VARIABLES
    rows,       \* the todos table: id -> row, for the ids that hold a row
    seq,        \* the table's AUTOINCREMENT counter: the largest id ever handed out
    now,        \* the store's clock as last read by an insert
    call,       \* per client: the resolver invocation in progress or last finished
    calls,      \* the number of requests so far
    req,        \* per client: the request the fetch handler is serving or served last
    issued,     \* history: the ids the table has handed out, seed rows included
    deleted     \* history: the ids for which a deleteTodo has returned true

vars == <<rows, seq, now, call, calls, req, issued, deleted>>

(***************************************************************************)
(* Bounds of the model.                                                    *)
(***************************************************************************)
MaxId == 4          \* largest id the table hands out (three seed rows + new ones)
MaxTime == 1        \* largest reading of the store's clock
MaxPad == 1         \* longest run of blanks before or after an input title
MaxCalls == 2       \* requests in one behaviour
MaxOver == 1        \* rows a large table holds beyond MAX_TODOS_QUERY

(***************************************************************************)
(* Program constants.                                                      *)
(***************************************************************************)
TITLE_MIN_LENGTH == 1
TITLE_MAX_LENGTH == 500
MAX_TODOS_QUERY == 1000

(***************************************************************************)
(* JavaScript values, tagged with their typeof.                            *)
(***************************************************************************)
Undefined == [t |-> "undefined"]
Null == [t |-> "null"]
Obj(o) == [t |-> "object", v |-> o]
Str(s) == [t |-> "string", v |-> s]
Num(n) == [t |-> "number", v |-> n]
Bool(b) == [t |-> "boolean", v |-> b]

\* typeof x
TypeOf(x) == IF x = Null THEN "object" ELSE x.t

\* !x
Falsy(x) ==
    \/ x = Undefined
    \/ x = Null
    \/ x.t = "string" /\ x.v = ""
    \/ x.t = "number" /\ x.v = 0
    \/ x.t = "boolean" /\ ~x.v

\* new Error(message); a thrown value that is no Error has isError FALSE
NewError(message) == [isError |-> TRUE, message |-> message]

\* the outcome of a block: it ran through, or it threw
Normal == [threw |-> FALSE]
Throw(e) == [threw |-> TRUE, error |-> e]

(***************************************************************************)
(* Strings.                                                                *)
(***************************************************************************)
Min(a, b) == IF a < b THEN a ELSE b

RECURSIVE Rep(_, _)
Rep(s, n) ==
    IF n <= 0 THEN ""
    ELSE LET h == Rep(s, n \div 2)
         IN  h \o h \o (IF n % 2 = 1 THEN s ELSE "")

CharAt(s, i) == SubSeq(s, i, i)

\* String.prototype.includes
Includes(s, sub) ==
    \E i \in 1..(Len(s) - Len(sub) + 1) : SubSeq(s, i, i + Len(sub) - 1) = sub

WhiteSpace == {" ", "\t", "\n", "\r"}

\* first and last index of a character that is not white space (0 if none)
FirstInk(s) ==
    IF \A i \in 1..Len(s) : CharAt(s, i) \in WhiteSpace THEN 0
    ELSE CHOOSE i \in 1..Len(s) :
        /\ CharAt(s, i) \notin WhiteSpace
        /\ \A j \in 1..(i - 1) : CharAt(s, j) \in WhiteSpace

\* (k counts from the end of the string)
LastInk(s) ==
    IF \A i \in 1..Len(s) : CharAt(s, i) \in WhiteSpace THEN 0
    ELSE LET n == Len(s)
             k == CHOOSE k \in 1..n :
                    /\ CharAt(s, n + 1 - k) \notin WhiteSpace
                    /\ \A j \in 1..(k - 1) : CharAt(s, n + 1 - j) \in WhiteSpace
         IN  n + 1 - k

\* String.prototype.trim
Trim(s) == IF FirstInk(s) = 0 THEN "" ELSE SubSeq(s, FirstInk(s), LastInk(s))

(***************************************************************************)
(* Validation helpers.                                                     *)
(***************************************************************************)
validateTitle(title) ==
    IF Falsy(title) \/ TypeOf(title) # "string"
    THEN Throw(NewError("Title is required and must be a string"))
    ELSE LET trimmed == Trim(title.v)
         IN  IF Len(trimmed) < TITLE_MIN_LENGTH
             THEN Throw(NewError("Title must be at least 1 character(s)"))
             ELSE IF Len(trimmed) > TITLE_MAX_LENGTH
             THEN Throw(NewError("Title must not exceed 500 characters"))
             ELSE Normal

\* validateId with the bound off by one: id < 0
validateId_OffByOne(id) ==
    IF TypeOf(id) # "number" \/ id.v < 0
    THEN Throw(NewError("ID must be a positive integer"))
    ELSE Normal

\* ids arrive as GraphQL Int, so Number.isInteger holds of every id modelled
validateId(id) ==
    IF TypeOf(id) # "number" \/ id.v < 1
    THEN Throw(NewError("ID must be a positive integer"))
    ELSE Normal

\* sanitizeTitle with trimStart() for trim()
sanitizeTitle_TrimStart(title) ==
    Str(IF FirstInk(title.v) = 0 THEN "" ELSE SubSeq(title.v, FirstInk(title.v), Len(title.v)))

sanitizeTitle(title) == Str(Trim(title.v))

mapTodoRow(row) ==
    [id |-> row.id,
     title |-> row.title,
     completed |-> row.completed # 0,
     createdAt |-> row.created_at]

\* one line of console output; the timestamp and the durations are clock
\* readings and are left out of the entry
log(level, message, data) == [level |-> level, message |-> message, data |-> data]

\* error instanceof Error ? error.message : String(error); a thrown value that
\* is no Error is modelled by the text String() gives it
ErrorText(error) == error.message

(***************************************************************************)
(* The todos table (schema.sql) and the five statements the resolvers      *)
(* prepare.  A statement is its SQL text with the bound parameters.        *)
(***************************************************************************)
SeedRows ==
    [id \in 1..3 |->
        [id |-> id,
         title |-> CASE id = 1 -> "Set up Cloudflare Workers"
                     [] id = 2 -> "Create GraphQL schema"
                     [] id = 3 -> "Deploy to production",
         completed |-> IF id = 3 THEN 0 ELSE 1,
         created_at |-> 0]]

SQL_SELECT_ALL == "SELECT * FROM todos ORDER BY created_at DESC LIMIT ?"
SQL_SELECT_ONE == "SELECT * FROM todos WHERE id = ?"
SQL_INSERT == "INSERT INTO todos (title) VALUES (?) RETURNING *"
SQL_DELETE == "DELETE FROM todos WHERE id = ? RETURNING id"

RECURSIVE Join(_, _)
Join(parts, sep) ==
    IF Len(parts) = 0 THEN ""
    ELSE IF Len(parts) = 1 THEN parts[1]
    ELSE parts[1] \o sep \o Join(Tail(parts), sep)

SQL_UPDATE(updates) == "UPDATE todos SET " \o Join(updates, ", ") \o " WHERE id = ? RETURNING *"

Prepared(sql, params) == [sql |-> sql, params |-> params]

IsUpdate(sql) == SubSeq(sql, 1, 6) = "UPDATE"

\* a database: the table, its AUTOINCREMENT counter and the clock
Db(r, s, n) == [rows |-> r, seq |-> s, now |-> n]

\* the outcome of a statement that ran: the database after it and what
\* first() / all() resolves to
Ran(db, result) == [db |-> db, result |-> result]

\* INTEGER PRIMARY KEY without AUTOINCREMENT: one more than the largest id held now
AutoIncrement_MaxRowid(db) ==
    IF DOMAIN db.rows = {} THEN 1
    ELSE 1 + CHOOSE m \in DOMAIN db.rows : \A i \in DOMAIN db.rows : i <= m

\* INTEGER PRIMARY KEY AUTOINCREMENT: one more than the largest id the table
\* has ever held, which sqlite_sequence remembers across deletes
AutoIncrement(db) == db.seq + 1

Rowids(db) == DOMAIN db.rows

\* INSERT INTO todos (title) VALUES (?) RETURNING *: completed DEFAULT 0,
\* created_at DEFAULT CURRENT_TIMESTAMP; the clock may have moved on
ExecInsert(db, params) ==
    LET id == AutoIncrement(db)
    IN  { LET row == [id |-> id, title |-> params[1].v, completed |-> 0, created_at |-> t]
          IN  Ran(Db([i \in Rowids(db) \cup {id} |-> IF i = id THEN row ELSE db.rows[i]],
                     IF id > db.seq THEN id ELSE db.seq,
                     t),
                  Obj(row))
          : t \in db.now..Min(db.now + 1, MaxTime) }

\* UPDATE todos SET <title = ?>, <completed = ?> WHERE id = ? RETURNING *
ExecUpdate(db, sql, params) ==
    LET id == params[Len(params)].v
        setsTitle == Includes(sql, "title = ?")
        setsCompleted == Includes(sql, "completed = ?")
    IN  IF id \notin Rowids(db) THEN {Ran(db, Null)}
        ELSE LET old == db.rows[id]
                 row == [id |-> old.id,
                         title |-> IF setsTitle THEN params[1].v ELSE old.title,
                         completed |-> IF setsCompleted
                                       THEN params[Len(params) - 1].v
                                       ELSE old.completed,
                         created_at |-> old.created_at]
             IN  {Ran(Db([db.rows EXCEPT ![id] = row], db.seq, db.now), Obj(row))}

\* DELETE FROM todos WHERE id = ? RETURNING id
ExecDelete(db, params) ==
    LET id == params[1].v
    IN  IF id \notin Rowids(db) THEN {Ran(db, Null)}
        ELSE {Ran(Db([i \in Rowids(db) \ {id} |-> db.rows[i]], db.seq, db.now),
                  Obj([id |-> id]))}

\* SELECT * FROM todos WHERE id = ?
ExecSelectOne(db, params) ==
    LET id == params[1].v
    IN  {Ran(db, IF id \in Rowids(db) THEN Obj(db.rows[id]) ELSE Null)}

\* the orders in which the rowids of S can be listed
Perms(S) ==
    LET n == Cardinality(S)
    IN  { f \in [1..n -> S] : \A i, j \in 1..n : i # j => f[i] # f[j] }

\* the orders ORDER BY created_at DESC allows for the rows of S, whose
\* created_at lie in lo..hi: later rows first, rows with equal created_at
\* in any order
RECURSIVE OrderingsOf(_, _, _, _)
OrderingsOf(db, S, lo, hi) ==
    IF S = {} THEN {<<>>}
    ELSE IF lo = hi THEN Perms(S)
    ELSE LET mid == (lo + hi) \div 2
             late == { id \in S : db.rows[id].created_at > mid }
         IN  { a \o b : a \in OrderingsOf(db, late, mid + 1, hi),
                         b \in OrderingsOf(db, S \ late, lo, mid) }

Orderings(db) == OrderingsOf(db, Rowids(db), 0, db.now)

\* SELECT * FROM todos ORDER BY created_at ASC LIMIT ?
ExecSelectAll_OldestFirst(db, params) ==
    LET limit == params[1].v
    IN  { Ran(db, [i \in 1..Min(limit, Len(f)) |-> db.rows[f[Len(f) + 1 - i]]])
          : f \in Orderings(db) }

\* SELECT * FROM todos ORDER BY created_at DESC LIMIT ?
ExecSelectAll(db, params) ==
    LET limit == params[1].v
    IN  { Ran(db, [i \in 1..Min(limit, Len(f)) |-> db.rows[f[i]]]) : f \in Orderings(db) }

\* the store runs one statement, atomically
Exec(db, stmt) ==
    CASE stmt.sql = SQL_SELECT_ALL -> ExecSelectAll(db, stmt.params)
      [] stmt.sql = SQL_SELECT_ONE -> ExecSelectOne(db, stmt.params)
      [] stmt.sql = SQL_INSERT -> ExecInsert(db, stmt.params)
      [] stmt.sql = SQL_DELETE -> ExecDelete(db, stmt.params)
      [] IsUpdate(stmt.sql) -> ExecUpdate(db, stmt.sql, stmt.params)

(***************************************************************************)
(* The resolvers.  Each is three pieces: the try block up to the await     *)
(* (Try), the try block after the await (Then), and the catch block        *)
(* (Catch).  Try gives the statement to await or the error thrown; Then    *)
(* and Catch give the log lines written and how the resolver ends.         *)
(***************************************************************************)
NoData == <<>>
NoStmt == Prepared("", <<>>)

Proceed(logs, stmt) == [threw |-> FALSE, logs |-> logs, stmt |-> stmt]
Failed(logs, error) == [threw |-> TRUE, logs |-> logs, error |-> error]

Pending == [kind |-> "none"]
Returned(value) == [kind |-> "return", value |-> value]
Thrown(error) == [kind |-> "throw", error |-> error]
Ends(logs, out) == [logs |-> logs, out |-> out]

\* Query.todos
todosTry ==
    Proceed(<<log("info", "Fetching all todos", NoData)>>,
            Prepared(SQL_SELECT_ALL, <<Num(MAX_TODOS_QUERY)>>))

todosThen(results) ==
    Ends(<<log("info", "Fetched todos successfully", [count |-> Len(results)])>>,
         Returned([i \in 1..Len(results) |-> mapTodoRow(results[i])]))

todosCatch(error) ==
    Ends(<<log("error", "Failed to fetch todos", [error |-> ErrorText(error)])>>,
         Thrown(NewError("Failed to fetch todos. Please try again later.")))

\* Query.todo
todoTry(args) ==
    LET v == validateId(args.id)
    IN  IF v.threw THEN Failed(<<>>, v.error)
        ELSE Proceed(<<log("info", "Fetching todo by ID", [id |-> args.id])>>,
                     Prepared(SQL_SELECT_ONE, <<args.id>>))

todoThen(args, result) ==
    IF Falsy(result)
    THEN Ends(<<log("info", "Todo not found", [id |-> args.id])>>, Returned(Null))
    ELSE Ends(<<log("info", "Fetched todo successfully", [id |-> args.id])>>,
              Returned(Obj(mapTodoRow(result.v))))

todoCatch(args, error) ==
    Ends(<<log("error", "Failed to fetch todo", [id |-> args.id, error |-> ErrorText(error)])>>,
         IF error.isError /\ Includes(error.message, "must be")
         THEN Thrown(error)
         ELSE Thrown(NewError("Failed to fetch todo. Please try again later.")))

\* createTodo binding the raw argument instead of the sanitized title
createTodoTry_BindsRaw(args) ==
    LET v == validateTitle(args.title)
    IN  IF v.threw THEN Failed(<<>>, v.error)
        ELSE Proceed(<<log("info", "Creating new todo",
                           [titleLength |-> Len(sanitizeTitle(args.title).v)])>>,
                     Prepared(SQL_INSERT, <<args.title>>))

\* Mutation.createTodo
createTodoTry(args) ==
    LET v == validateTitle(args.title)
    IN  IF v.threw THEN Failed(<<>>, v.error)
        ELSE LET sanitizedTitle == sanitizeTitle(args.title)
             IN  Proceed(<<log("info", "Creating new todo",
                               [titleLength |-> Len(sanitizedTitle.v)])>>,
                         Prepared(SQL_INSERT, <<sanitizedTitle>>))

createTodoCatch(error) ==
    Ends(<<log("error", "Failed to create todo", [error |-> ErrorText(error)])>>,
         IF error.isError /\ Includes(error.message, "must")
         THEN Thrown(error)
         ELSE Thrown(NewError("Failed to create todo. Please try again later.")))

createTodoThen(result) ==
    IF Falsy(result)
    THEN createTodoCatch(NewError("Database returned no result after insert"))
    ELSE Ends(<<log("info", "Created todo successfully", [id |-> Num(result.v.id)])>>,
              Returned(Obj(mapTodoRow(result.v))))

\* updateTodo writing completed whether or not it was supplied
updateTodoTry_AlwaysCompleted(args) ==
    LET v == validateId(args.id)
        hasTitle == args.title # Undefined
        hasCompleted == args.completed # Undefined
        vt == IF hasTitle THEN validateTitle(args.title) ELSE Normal
        updates1 == IF hasTitle THEN <<"title = ?">> ELSE <<>>
        params1 == IF hasTitle THEN <<sanitizeTitle(args.title)>> ELSE <<>>
        updates == Append(updates1, "completed = ?")
        params == Append(params1, Num(IF args.completed = Bool(TRUE) THEN 1 ELSE 0))
    IN  IF v.threw THEN Failed(<<>>, v.error)
        ELSE IF vt.threw THEN Failed(<<>>, vt.error)
        ELSE IF hasCompleted /\ TypeOf(args.completed) # "boolean"
        THEN Failed(<<>>, NewError("Completed must be a boolean"))
        ELSE IF ~hasTitle /\ ~hasCompleted
        THEN Failed(<<>>, NewError("No fields to update. Provide at least title or completed."))
        ELSE Proceed(<<log("info", "Updating todo",
                           [id |-> args.id, fields |-> Len(updates)])>>,
                     Prepared(SQL_UPDATE(updates), Append(params, args.id)))

\* Mutation.updateTodo
updateTodoTry(args) ==
    LET v == validateId(args.id)
        hasTitle == args.title # Undefined
        hasCompleted == args.completed # Undefined
        vt == IF hasTitle THEN validateTitle(args.title) ELSE Normal
        updates1 == IF hasTitle THEN <<"title = ?">> ELSE <<>>
        params1 == IF hasTitle THEN <<sanitizeTitle(args.title)>> ELSE <<>>
        updates == IF hasCompleted THEN Append(updates1, "completed = ?") ELSE updates1
        params == IF hasCompleted
                  THEN Append(params1, Num(IF args.completed.v THEN 1 ELSE 0))
                  ELSE params1
    IN  IF v.threw THEN Failed(<<>>, v.error)
        ELSE IF vt.threw THEN Failed(<<>>, vt.error)
        ELSE IF hasCompleted /\ TypeOf(args.completed) # "boolean"
        THEN Failed(<<>>, NewError("Completed must be a boolean"))
        ELSE IF Len(updates) = 0
        THEN Failed(<<>>, NewError("No fields to update. Provide at least title or completed."))
        ELSE Proceed(<<log("info", "Updating todo",
                           [id |-> args.id, fields |-> Len(updates)])>>,
                     Prepared(SQL_UPDATE(updates), Append(params, args.id)))

\* updateTodo answering a missing row with an error instead of null
updateTodoThen_NotFoundThrows(args, result) ==
    IF Falsy(result)
    THEN Ends(<<log("error", "Failed to update todo", [id |-> args.id])>>,
              Thrown(NewError("Failed to update todo. Please try again later.")))
    ELSE Ends(<<log("info", "Updated todo successfully", [id |-> args.id])>>,
              Returned(Obj(mapTodoRow(result.v))))

updateTodoThen(args, result) ==
    IF Falsy(result)
    THEN Ends(<<log("info", "Todo not found for update", [id |-> args.id])>>, Returned(Null))
    ELSE Ends(<<log("info", "Updated todo successfully", [id |-> args.id])>>,
              Returned(Obj(mapTodoRow(result.v))))

updateTodoCatch(args, error) ==
    Ends(<<log("error", "Failed to update todo", [id |-> args.id, error |-> ErrorText(error)])>>,
         IF error.isError /\ Includes(error.message, "must")
         THEN Thrown(error)
         ELSE Thrown(NewError("Failed to update todo. Please try again later.")))

\* deleteTodo comparing the result with undefined, which first() never gives
deleteTodoThen_Undefined(args, result) ==
    LET isDeleted == result # Undefined
    IN  Ends(<<log("info",
                   IF isDeleted THEN "Deleted todo successfully"
                   ELSE "Todo not found for deletion",
                   [id |-> args.id, deleted |-> isDeleted])>>,
             Returned(Bool(isDeleted)))

\* Mutation.deleteTodo
deleteTodoTry(args) ==
    LET v == validateId(args.id)
    IN  IF v.threw THEN Failed(<<>>, v.error)
        ELSE Proceed(<<log("info", "Deleting todo", [id |-> args.id])>>,
                     Prepared(SQL_DELETE, <<args.id>>))

deleteTodoThen(args, result) ==
    LET isDeleted == result # Null
    IN  Ends(<<log("info",
                   IF isDeleted THEN "Deleted todo successfully"
                   ELSE "Todo not found for deletion",
                   [id |-> args.id, deleted |-> isDeleted])>>,
             Returned(Bool(isDeleted)))

deleteTodoCatch(args, error) ==
    Ends(<<log("error", "Failed to delete todo", [id |-> args.id, error |-> ErrorText(error)])>>,
         IF error.isError /\ Includes(error.message, "must be")
         THEN Thrown(error)
         ELSE Thrown(NewError("Failed to delete todo. Please try again later.")))

\* dispatch on the field name, as the GraphQL host does
Try(op, args) ==
    CASE op = "todos" -> todosTry
      [] op = "todo" -> todoTry(args)
      [] op = "createTodo" -> createTodoTry(args)
      [] op = "updateTodo" -> updateTodoTry(args)
      [] op = "deleteTodo" -> deleteTodoTry(args)

Then(op, args, result) ==
    CASE op = "todos" -> todosThen(result)
      [] op = "todo" -> todoThen(args, result)
      [] op = "createTodo" -> createTodoThen(result)
      [] op = "updateTodo" -> updateTodoThen(args, result)
      [] op = "deleteTodo" -> deleteTodoThen(args, result)

Catch(op, args, error) ==
    CASE op = "todos" -> todosCatch(error)
      [] op = "todo" -> todoCatch(args, error)
      [] op = "createTodo" -> createTodoCatch(error)
      [] op = "updateTodo" -> updateTodoCatch(args, error)
      [] op = "deleteTodo" -> deleteTodoCatch(args, error)

(***************************************************************************)
(* The fetch handler.  Like a resolver it is three pieces: the try block   *)
(* up to await yoga.fetch (fetchTry), the try block after it (fetchThen)   *)
(* and the catch block (fetchCatch).                                       *)
(***************************************************************************)
CORS_HEADERS ==
    ("Access-Control-Allow-Origin" :> "*")
    @@ ("Access-Control-Allow-Methods" :> "GET, POST, OPTIONS")
    @@ ("Access-Control-Allow-Headers" :> "Content-Type, Authorization")
    @@ ("Access-Control-Max-Age" :> "86400")

\* headers.set(key, value)
SetHeader(headers, key, value) ==
    [k \in DOMAIN headers \cup {key} |-> IF k = key THEN value ELSE headers[k]]

\* { ...a, ...b }
Spread(a, b) == [k \in DOMAIN a \cup DOMAIN b |-> IF k \in DOMAIN b THEN b[k] ELSE a[k]]

\* new Response(body, { status, headers })
Response(body, status, headers) == [body |-> body, status |-> status, headers |-> headers]

\* JSON.stringify of an object whose values are strings, given as its
\* <<key, value>> pairs in order
Stringify(pairs) ==
    "{" \o Join([i \in 1..Len(pairs) |->
                    "\"" \o pairs[i][1] \o "\":\"" \o pairs[i][2] \o "\""], ",") \o "}"

\* crypto.randomUUID(): the n-th request draws an id no earlier request drew
RandomUUID(n) ==
    LET Digit(d) == SubSeq("0123456789", d + 1, d + 1)
    IN  "00000000-0000-4000-8000-0000000000" \o Digit((n \div 10) % 10) \o Digit(n % 10)

\* how a piece of the handler ends: it returns a response, or it awaits the host
Responds(logs, response) == [responds |-> TRUE, logs |-> logs, response |-> response]
AwaitsHost(logs) == [responds |-> FALSE, logs |-> logs]

\* the store binding is tested before the method
fetchTry_BindingFirst(requestId, request, env) ==
    LET incoming == log("info", "Incoming request",
                        [requestId |-> requestId, method |-> request.method,
                         url |-> request.url, userAgent |-> request.userAgent])
    IN  IF Falsy(env.DB)
        THEN Responds(<<incoming, log("error", "Database binding not found",
                                      [requestId |-> requestId])>>,
                      Response(Str(Stringify(<<<<"error", "Service temporarily unavailable">>>>)),
                               503,
                               Spread("Content-Type" :> "application/json", CORS_HEADERS)))
        ELSE IF request.method = "OPTIONS"
        THEN Responds(<<incoming>>, Response(Null, 204, CORS_HEADERS))
        ELSE AwaitsHost(<<incoming>>)

fetchTry(requestId, request, env) ==
    LET incoming == log("info", "Incoming request",
                        [requestId |-> requestId, method |-> request.method,
                         url |-> request.url, userAgent |-> request.userAgent])
    IN  IF request.method = "OPTIONS"
        THEN Responds(<<incoming>>, Response(Null, 204, CORS_HEADERS))
        ELSE IF Falsy(env.DB)
        THEN Responds(<<incoming, log("error", "Database binding not found",
                                      [requestId |-> requestId])>>,
                      Response(Str(Stringify(<<<<"error", "Service temporarily unavailable">>>>)),
                               503,
                               Spread("Content-Type" :> "application/json", CORS_HEADERS)))
        ELSE AwaitsHost(<<incoming>>)

\* the four security headers set on the host's response
WithSecurityHeaders(headers) ==
    SetHeader(SetHeader(SetHeader(SetHeader(headers,
        "X-Content-Type-Options", "nosniff"),
        "X-Frame-Options", "DENY"),
        "X-XSS-Protection", "1; mode=block"),
        "Referrer-Policy", "strict-origin-when-cross-origin")

fetchThen(requestId, response) ==
    LET corsResponse ==
            Response(response.body, response.status,
                     WithSecurityHeaders(Spread(response.headers, CORS_HEADERS)))
    IN  Responds(<<log("info", "Request completed",
                       [requestId |-> requestId, status |-> corsResponse.status])>>,
                 corsResponse)

\* the error response names another request's id
fetchCatch_StaleId(requestId, error) ==
    Responds(<<log("error", "Unhandled error in fetch handler",
                   [requestId |-> requestId,
                    error |-> ErrorText(error),
                    stack |-> IF error.isError THEN Str(error.stack) ELSE Undefined])>>,
             Response(Str(Stringify(<<<<"error", "Internal server error">>,
                                      <<"requestId", RandomUUID(1)>>>>)),
                      500,
                      Spread("Content-Type" :> "application/json", CORS_HEADERS)))

fetchCatch(requestId, error) ==
    Responds(<<log("error", "Unhandled error in fetch handler",
                   [requestId |-> requestId,
                    error |-> ErrorText(error),
                    stack |-> IF error.isError THEN Str(error.stack) ELSE Undefined])>>,
             Response(Str(Stringify(<<<<"error", "Internal server error">>,
                                      <<"requestId", requestId>>>>)),
                      500,
                      Spread("Content-Type" :> "application/json", CORS_HEADERS)))

\* the response the GraphQL host builds from a resolver's outcome: the
\* returned value as data, or the thrown error's message (errors are not masked)
HostResponse(out) ==
    Response(Obj(IF out.kind = "return" THEN [data |-> out.value]
                 ELSE [errors |-> <<out.error.message>>]),
             200,
             "Content-Type" :> "application/graphql-response+json; charset=utf-8")

(***************************************************************************)
(* Inputs.                                                                 *)
(***************************************************************************)
\* ids as GraphQL Int delivers them: below 1, held by a row, past the table
Ids == { Num(i) : i \in 0..(MaxId + 1) }

\* a body of n characters with a blank inside once there is room for one
Core(n) == IF n >= 3 THEN "a " \o Rep("b", n - 2) ELSE Rep("a", n)

CoreLengths == {0, TITLE_MIN_LENGTH, TITLE_MAX_LENGTH, TITLE_MAX_LENGTH + 1}

\* title strings: a body between p blanks and p tabs
Titles == { Rep(" ", p) \o Core(n) \o Rep("\t", p) : p \in 0..MaxPad, n \in CoreLengths }

\* createTodo(title: String!)
CreateTitles == { Str(s) : s \in Titles }

\* updateTodo(title: String, completed: Boolean): absent, null or a value
UpdateTitles == {Undefined, Null} \cup CreateTitles
UpdateCompleted == {Undefined, Null, Bool(TRUE), Bool(FALSE)}

\* what a failing store call throws: an Error with some message text, or a
\* value that is no Error
StoreErrors ==
    { NewError("D1_ERROR: no such table: todos: SQLITE_ERROR"),
      NewError("D1_ERROR: frame starting offset must be a non-negative integer: SQLITE_ERROR"),
      [isError |-> FALSE, message |-> "Network connection lost."] }

Args(id, title, completed) == [id |-> id, title |-> title, completed |-> completed]

\* requests: a preflight or a GraphQL POST, with no user-agent header
Methods == {"OPTIONS", "POST"}
Request(method) == [method |-> method, url |-> "https://todos.example/graphql", userAgent |-> Null]

\* the worker's bindings: the D1 binding is configured or missing
Envs == {[DB |-> Obj("D1Database")], [DB |-> Undefined]}

\* what the host answers without running a resolver: its landing page, or
\* its rejection of a document it cannot parse
HostResponses ==
    { Response(Str("<!doctype html>"), 200, "Content-Type" :> "text/html"),
      Response(Obj([errors |-> <<"Syntax Error: Unexpected <EOF>.">>]), 400,
               "Content-Type" :> "application/graphql-response+json; charset=utf-8") }

\* what escapes yoga.fetch when it throws: an Error with its stack, or a
\* value that is no Error
HostErrors ==
    { [isError |-> TRUE, message |-> "This ReadableStream is disturbed",
       stack |-> "TypeError: This ReadableStream is disturbed\n    at async Object.fetch (index.js:378:21)"],
      [isError |-> FALSE, message |-> "The script will never generate a response."] }

(***************************************************************************)
(* State.                                                                  *)
(***************************************************************************)
Idle ==
    [pc |-> "idle", op |-> "none", args |-> Args(Undefined, Undefined, Undefined),
     stmt |-> NoStmt, stmts |-> 0, awaited |-> Pending, logs |-> <<>>, out |-> Pending]

\* no request yet
NoRequest ==
    [phase |-> "none", requestId |-> "", request |-> Request(""), env |-> [DB |-> Undefined],
     escaped |-> Pending, logs |-> <<>>, response |-> Response(Null, 0, <<>>)]

Clients == DOMAIN call

DbNow == Db(rows, seq, now)

\* the database after schema.sql has run
InitDb ==
    /\ rows = SeedRows
    /\ seq = 3
    /\ now = 0
    /\ issued = 1..3
    /\ deleted = {}

Init ==
    /\ InitDb
    /\ call = [c \in {1} |-> Idle]
    /\ calls = 0
    /\ req = [c \in {1} |-> NoRequest]

(***************************************************************************)
(* A request arrives: the handler draws its id and answers it at once, or  *)
(* creates the GraphQL host and awaits it.                                 *)
(***************************************************************************)
Fetch(c, method, env) ==
    LET requestId == RandomUUID(calls + 1)
        try == fetchTry(requestId, Request(method), env)
    IN  /\ req[c].phase \in {"none", "sent"}
        /\ calls < MaxCalls
        /\ calls' = calls + 1
        /\ req' = [req EXCEPT ![c] =
              [phase |-> IF try.responds THEN "sent" ELSE "host",
               requestId |-> requestId, request |-> Request(method), env |-> env,
               escaped |-> Pending, logs |-> try.logs,
               response |-> IF try.responds THEN try.response ELSE NoRequest.response]]
        /\ UNCHANGED <<rows, seq, now, call, issued, deleted>>

\* the handler returns its response; escaped records what yoga.fetch threw
Respond(c, escaped, end) ==
    req' = [req EXCEPT ![c].phase = "sent", ![c].escaped = escaped,
                       ![c].logs = @ \o end.logs, ![c].response = end.response]

(***************************************************************************)
(* The host invokes a resolver, which runs to its await, or to its end     *)
(* when validation throws: no statement is prepared then.                  *)
(***************************************************************************)
Start(c, op, args) ==
    LET try == Try(op, args)
    IN  /\ req[c].phase = "host"
        /\ call[c].pc = "idle"
        /\ UNCHANGED <<calls, req>>
        /\ call' = [call EXCEPT ![c] =
              IF try.threw
              THEN LET end == Catch(op, args, try.error)
                   IN  [pc |-> "done", op |-> op, args |-> args, stmt |-> NoStmt,
                        stmts |-> 0, awaited |-> Pending,
                        logs |-> try.logs \o end.logs, out |-> end.out]
              ELSE [pc |-> "await", op |-> op, args |-> args, stmt |-> try.stmt,
                    stmts |-> 1, awaited |-> Pending,
                    logs |-> try.logs, out |-> Pending]]
        /\ UNCHANGED <<rows, seq, now, issued, deleted>>

Todos(c) == Start(c, "todos", Args(Undefined, Undefined, Undefined))

Todo(c, id) == Start(c, "todo", Args(id, Undefined, Undefined))

\* the table holds ids up to MaxId: no insert is begun that would pass it
CreateTodo(c, title) ==
    /\ seq + Cardinality({d \in Clients : call[d].pc = "await" /\ call[d].op = "createTodo"}) < MaxId
    /\ Start(c, "createTodo", Args(Undefined, title, Undefined))

UpdateTodo(c, id, title, completed) == Start(c, "updateTodo", Args(id, title, completed))

DeleteTodo(c, id) == Start(c, "deleteTodo", Args(id, Undefined, Undefined))

(***************************************************************************)
(* The awaited statement: the store runs it and the resolver goes on to    *)
(* its end, or the store call throws and the catch block runs.             *)
(***************************************************************************)
\* awaited records what the store call resolved to or threw
Finish(c, awaited, end) ==
    [call[c] EXCEPT !.pc = "done", !.awaited = awaited,
                    !.logs = @ \o end.logs, !.out = end.out]

Settle(c, db, awaited, end) ==
    /\ rows' = db.rows
    /\ seq' = db.seq
    /\ now' = db.now
    /\ issued' = issued \cup (DOMAIN db.rows \ DOMAIN rows)
    /\ deleted' = IF call[c].op = "deleteTodo" /\ end.out = Returned(Bool(TRUE))
                  THEN deleted \cup {call[c].args.id.v}
                  ELSE deleted
    /\ call' = [call EXCEPT ![c] = Finish(c, awaited, end)]
    /\ UNCHANGED <<calls, req>>

StoreRuns(c) ==
    /\ call[c].pc = "await"
    /\ \E r \in Exec(DbNow, call[c].stmt) :
          Settle(c, r.db, Returned(r.result), Then(call[c].op, call[c].args, r.result))

StoreThrows(c) ==
    /\ call[c].pc = "await"
    /\ \E e \in StoreErrors :
          Settle(c, DbNow, Thrown(e), Catch(call[c].op, call[c].args, e))

\* the store breaks its contract: first() of INSERT ... RETURNING resolves
\* to null, with the row inserted or not
InsertReturnsNoRow(c) ==
    /\ call[c].pc = "await"
    /\ call[c].op = "createTodo"
    /\ \E db \in {DbNow} \cup {r.db : r \in Exec(DbNow, call[c].stmt)} :
          Settle(c, db, Returned(Null), Then(call[c].op, call[c].args, Null))

\* yoga.fetch resolves with the response built from the resolver's outcome;
\* the handler decorates and returns it, and the client may call again
Reply(c) ==
    /\ req[c].phase = "host"
    /\ call[c].pc = "done"
    /\ call' = [call EXCEPT ![c] = Idle]
    /\ Respond(c, Pending, fetchThen(req[c].requestId, HostResponse(call[c].out)))
    /\ UNCHANGED <<rows, seq, now, calls, issued, deleted>>

\* yoga.fetch resolves without having run a resolver
HostAnswers(c) ==
    /\ req[c].phase = "host"
    /\ call[c].pc = "idle"
    /\ \E response \in HostResponses :
          Respond(c, Pending, fetchThen(req[c].requestId, response))
    /\ UNCHANGED <<rows, seq, now, call, calls, issued, deleted>>

\* yoga.fetch throws, before it runs a resolver or after the resolver has
\* finished: the catch block answers
HostThrows(c) ==
    /\ req[c].phase = "host"
    /\ call[c].pc \in {"idle", "done"}
    /\ call' = [call EXCEPT ![c] = Idle]
    /\ \E error \in HostErrors :
          Respond(c, Thrown(error), fetchCatch(req[c].requestId, error))
    /\ UNCHANGED <<rows, seq, now, calls, issued, deleted>>

DoFetch == \E c \in Clients, method \in Methods, env \in Envs : Fetch(c, method, env)
DoHostAnswers == \E c \in Clients : HostAnswers(c)
DoHostThrows == \E c \in Clients : HostThrows(c)

DoTodos == \E c \in Clients : Todos(c)
DoTodo == \E c \in Clients, id \in Ids : Todo(c, id)
DoCreateTodo == \E c \in Clients, title \in CreateTitles : CreateTodo(c, title)
DoUpdateTodo ==
    \E c \in Clients, id \in Ids, title \in UpdateTitles, completed \in UpdateCompleted :
        UpdateTodo(c, id, title, completed)
DoDeleteTodo == \E c \in Clients, id \in Ids : DeleteTodo(c, id)
DoStoreRuns == \E c \in Clients : StoreRuns(c)
DoStoreThrows == \E c \in Clients : StoreThrows(c)
DoInsertReturnsNoRow == \E c \in Clients : InsertReturnsNoRow(c)
DoReply == \E c \in Clients : Reply(c)

Next ==
    \/ DoFetch
    \/ DoHostAnswers
    \/ DoHostThrows
    \/ DoTodos
    \/ DoTodo
    \/ DoCreateTodo
    \/ DoUpdateTodo
    \/ DoDeleteTodo
    \/ DoStoreRuns
    \/ DoStoreThrows
    \/ DoInsertReturnsNoRow
    \/ DoReply

Spec == Init /\ [][Next]_vars

(***************************************************************************)
(* Two clients whose calls overlap: the worker serves requests             *)
(* concurrently and nothing orders their statements but the store.         *)
(***************************************************************************)
\* the last seed row and an id no row holds
ConcIds == {Num(3), Num(MaxId + 1)}
\* two valid titles, one of them padded
ConcTitles ==
    { Str(Rep(" ", MaxPad) \o Core(TITLE_MIN_LENGTH) \o Rep("\t", MaxPad)),
      Str(Core(TITLE_MIN_LENGTH + 1)) }
ConcUpdateTitles == {Undefined} \cup ConcTitles
ConcUpdateCompleted == {Undefined, Bool(TRUE), Bool(FALSE)}

InitConc ==
    /\ InitDb
    /\ call = [c \in {1, 2} |-> Idle]
    /\ calls = 0
    /\ req = [c \in {1, 2} |-> NoRequest]

ConcTodo == \E c \in Clients, id \in ConcIds : Todo(c, id)
ConcCreateTodo ==
    \E c \in Clients, title \in {Str(Core(TITLE_MIN_LENGTH + 1))} : CreateTodo(c, title)
ConcUpdateTodo ==
    \E c \in Clients, id \in ConcIds, title \in ConcUpdateTitles,
       completed \in ConcUpdateCompleted :
        UpdateTodo(c, id, title, completed)
ConcDeleteTodo == \E c \in Clients, id \in ConcIds : DeleteTodo(c, id)

NextConc ==
    \/ DoFetch
    \/ DoHostAnswers
    \/ DoHostThrows
    \/ DoTodos
    \/ ConcTodo
    \/ ConcCreateTodo
    \/ ConcUpdateTodo
    \/ ConcDeleteTodo
    \/ DoStoreRuns
    \/ DoStoreThrows
    \/ DoInsertReturnsNoRow
    \/ DoReply

SpecConc == InitConc /\ [][NextConc]_vars

(***************************************************************************)
(* A table grown past the todos() limit: the seed rows and one row per     *)
(* later clock tick, as createTodo calls leave them.                       *)
(***************************************************************************)
ManyRows(n) ==
    [id \in 1..n |->
        IF id \in DOMAIN SeedRows THEN SeedRows[id]
        ELSE [id |-> id, title |-> Core(TITLE_MIN_LENGTH), completed |-> 0,
              created_at |-> id - 3]]

ManySizes == (MAX_TODOS_QUERY - 1)..(MAX_TODOS_QUERY + MaxOver)

InitMany ==
    /\ \E n \in ManySizes :
          /\ rows = ManyRows(n)
          /\ seq = n
          /\ now = n - 3
          /\ issued = 1..n
    /\ deleted = {}
    /\ call = [c \in {1} |-> Idle]
    /\ calls = 0
    /\ req = [c \in {1} |-> NoRequest]

NextMany ==
    \/ DoFetch
    \/ DoHostAnswers
    \/ DoHostThrows
    \/ DoTodos
    \/ DoDeleteTodo
    \/ DoStoreRuns
    \/ DoStoreThrows
    \/ DoReply

SpecMany == InitMany /\ [][NextMany]_vars

(***************************************************************************)
(* Vocabulary of the properties.                                           *)
(***************************************************************************)
AllWhite(s) == \A i \in 1..Len(s) : CharAt(s, i) \in WhiteSpace

\* t is s without its leading and trailing white space
IsTrimOf(t, s) ==
    /\ t # "" => CharAt(t, 1) \notin WhiteSpace /\ CharAt(t, Len(t)) \notin WhiteSpace
    /\ \E i \in 0..(Len(s) - Len(t)) :
          /\ SubSeq(s, i + 1, i + Len(t)) = t
          /\ AllWhite(SubSeq(s, 1, i))
          /\ AllWhite(SubSeq(s, i + Len(t) + 1, Len(s)))

\* the number of white-space characters s begins with, and ends with
LeadingWhite(s) ==
    CHOOSE k \in 0..Len(s) :
        AllWhite(SubSeq(s, 1, k)) /\ (k = Len(s) \/ CharAt(s, k + 1) \notin WhiteSpace)

TrailingWhite(s) ==
    CHOOSE k \in 0..Len(s) :
        /\ AllWhite(SubSeq(s, Len(s) - k + 1, Len(s)))
        /\ (k = Len(s) \/ CharAt(s, Len(s) - k) \notin WhiteSpace)

\* the length of s without its leading and trailing white space
TrimmedLength(s) ==
    IF LeadingWhite(s) = Len(s) THEN 0 ELSE Len(s) - LeadingWhite(s) - TrailingWhite(s)

\* a title argument the resolvers accept
TitleOk(title) ==
    /\ title.t = "string"
    /\ TrimmedLength(title.v) >= 1
    /\ TrimmedLength(title.v) <= 500

TakesId(op) == op \in {"todo", "updateTodo", "deleteTodo"}

\* some argument of the invocation fails validation
FailsValidation(op, args) ==
    \/ TakesId(op) /\ args.id.v < 1
    \/ op = "createTodo" /\ ~TitleOk(args.title)
    \/ op = "updateTodo" /\ args.title # Undefined /\ ~TitleOk(args.title)
    \/ op = "updateTodo" /\ args.completed # Undefined /\ args.completed.t # "boolean"
    \/ op = "updateTodo" /\ args.title = Undefined /\ args.completed = Undefined

\* client c's resolver finishes in this step
Finishes(c) == call[c].pc # "done" /\ call'[c].pc = "done"

\* client c's statement has run in the store in this step (it did not throw)
StatementRan(c) == call[c].pc = "await" /\ call'[c].pc = "done" /\ call'[c].awaited.kind = "return"

SameRows == rows' = rows

\* C1: a resolver invocation issues no store statement when an argument
\* fails validation and exactly one otherwise, also when that statement
\* fails; an invocation that fails validation leaves the stored rows unchanged.
C1_StatementCount ==
    /\ [](\A c \in Clients :
            call[c].pc # "idle" =>
                call[c].stmts = IF FailsValidation(call[c].op, call[c].args) THEN 0 ELSE 1)
    /\ [][\A c \in Clients :
            Finishes(c) /\ FailsValidation(call'[c].op, call'[c].args) => SameRows]_vars

C1_Witness ==
    \E c \in Clients :
        /\ call[c].pc = "done"
        /\ call[c].op = "updateTodo"
        /\ call[c].args.id.v >= 1
        /\ call[c].args.title = Undefined
        /\ call[c].args.completed = Null
        /\ call[c].stmts = 0
        /\ calls = 2

\* client c's INSERT ran in this step and first() resolved to the inserted row
InsertReturnedRow(c) ==
    /\ StatementRan(c)
    /\ call[c].op = "createTodo"
    /\ call'[c].awaited.value # Null

\* C2: for a title whose trimmed length is in [1,500] createTodo passes
\* validation, and when the store performs the insert and returns the row it
\* succeeds, inserts exactly one row, persists and returns trim(title), and
\* returns completed = false and a positive id no other row holds.
C2_CreateRoundTrip ==
    /\ [](\A c \in Clients :
            call[c].op = "createTodo" /\ TitleOk(call[c].args.title) =>
                call[c].pc = "await" \/ call[c].awaited # Pending)
    /\ [][\A c \in Clients :
            InsertReturnedRow(c) =>
                LET title == call[c].args.title.v
                    out == call'[c].out
                IN  /\ out.kind = "return"
                    /\ \E id \in DOMAIN rows' \ DOMAIN rows :
                          /\ DOMAIN rows' = DOMAIN rows \cup {id}
                          /\ \A i \in DOMAIN rows : rows'[i] = rows[i]
                          /\ IsTrimOf(rows'[id].title, title)
                          /\ IsTrimOf(out.value.v.title, title)
                          /\ out.value.v.completed = FALSE
                          /\ out.value.v.id = id
                          /\ id >= 1]_vars

C2_Witness ==
    \E c \in Clients :
        /\ call[c].pc = "done"
        /\ call[c].op = "createTodo"
        /\ call[c].out.kind = "return"
        /\ call[c].out.value.v.title # call[c].args.title.v
        /\ Len(call[c].out.value.v.title) = 500
        /\ call[c].out.value.v.id \in DOMAIN rows

\* the todo the resolver returns for a stored row
AsTodo(row) ==
    [id |-> row.id, title |-> row.title, completed |-> (row.completed = 1),
     createdAt |-> row.created_at]

\* C3: updateTodo on an existing row changes only the supplied fields of
\* that row: an omitted title or completed keeps its value, id and
\* created_at never change, every other row is unchanged, and the returned
\* todo equals the row as stored after the update.
C3_UpdateFrame ==
    [][\A c \in Clients :
        Finishes(c) /\ call'[c].op = "updateTodo" =>
            LET id == call'[c].args.id.v
                args == call'[c].args
                out == call'[c].out
            IN  /\ DOMAIN rows' = DOMAIN rows
                /\ \A i \in DOMAIN rows : i # id => rows'[i] = rows[i]
                /\ id \in DOMAIN rows =>
                      /\ rows'[id].id = id
                      /\ rows'[id].created_at = rows[id].created_at
                      /\ args.title = Undefined => rows'[id].title = rows[id].title
                      /\ args.completed = Undefined =>
                            rows'[id].completed = rows[id].completed
                /\ out.kind = "return" /\ out.value # Null =>
                      /\ id \in DOMAIN rows
                      /\ out.value.v = AsTodo(rows'[id])]_vars

C3_Witness ==
    \E c \in Clients :
        /\ call[c].pc = "done"
        /\ call[c].op = "updateTodo"
        /\ call[c].args.title = Undefined
        /\ call[c].args.completed = Bool(FALSE)
        /\ call[c].out.kind = "return"
        /\ call[c].out.value # Null
        /\ call[c].out.value.v.title = SeedRows[1].title
        /\ rows[1].completed = 0

\* C4: for id >= 1 deleteTodo(id) returns true iff a row with that id
\* existed when the statement ran, and that row is then removed; it returns
\* false and leaves the store unchanged otherwise; no deleteTodo returns true
\* for an id for which an earlier one did.
C4_DeleteOnce ==
    [][\A c \in Clients :
        StatementRan(c) /\ call[c].op = "deleteTodo" =>
            LET id == call[c].args.id.v
                out == call'[c].out
            IN  /\ id >= 1
                /\ out.kind = "return"
                /\ out.value = Bool(id \in DOMAIN rows)
                /\ id \in DOMAIN rows =>
                      /\ DOMAIN rows' = DOMAIN rows \ {id}
                      /\ \A i \in DOMAIN rows' : rows'[i] = rows[i]
                      /\ id \notin deleted
                /\ id \notin DOMAIN rows => SameRows]_vars

\* both clients have deleted the same id: one got true, then the other false
C4_Witness ==
    /\ call[1].pc = "done" /\ call[1].op = "deleteTodo"
    /\ call[2].pc = "done" /\ call[2].op = "deleteTodo"
    /\ call[1].args.id = call[2].args.id
    /\ call[1].out = Returned(Bool(TRUE))
    /\ call[2].out = Returned(Bool(FALSE))

\* what a call that finds no row gives back
Absent(op) == IF op = "deleteTodo" THEN Returned(Bool(FALSE)) ELSE Returned(Null)

InvalidId == Thrown(NewError("ID must be a positive integer"))

\* a title or completed value is given (not left out, not null)
GivesField(args) == args.title.t = "string" \/ args.completed.t = "boolean"

\* C5 as amended: for id < 1 each of todo, updateTodo and deleteTodo fails
\* with "ID must be a positive integer" unchanged; for id >= 1 with no matching
\* row, todo(id) and updateTodo(id, ...) with at least one field supplied and
\* every supplied field valid return null and deleteTodo(id) returns false, as
\* successful results.
C5_IdHandling ==
    [][\A c \in Clients :
        Finishes(c) /\ TakesId(call'[c].op) =>
            LET op == call'[c].op
                args == call'[c].args
                out == call'[c].out
            IN  /\ args.id.v < 1 => out = InvalidId
                /\ ( /\ args.id.v >= 1
                     /\ args.id.v \notin DOMAIN rows
                     /\ ~FailsValidation(op, args)
                     /\ call'[c].awaited.kind # "throw" ) => out = Absent(op)]_vars

\* C5 as stated: the same, for updateTodo with at least one field supplied,
\* valid or not.
C5_Original ==
    [][\A c \in Clients :
        Finishes(c) /\ TakesId(call'[c].op) =>
            LET op == call'[c].op
                args == call'[c].args
                out == call'[c].out
            IN  /\ args.id.v < 1 => out = InvalidId
                /\ ( /\ args.id.v >= 1
                     /\ args.id.v \notin DOMAIN rows
                     /\ op = "updateTodo" => GivesField(args)
                     /\ call'[c].awaited.kind # "throw" ) => out = Absent(op)]_vars

\* an update of a missing row with a valid title came back null, after the
\* row was deleted
C5_Witness ==
    \E c \in Clients :
        /\ call[c].pc = "done"
        /\ call[c].op = "updateTodo"
        /\ call[c].args.id.v \in deleted
        /\ call[c].args.title.t = "string"
        /\ call[c].awaited = Returned(Null)
        /\ call[c].out = Returned(Null)

\* C6: updateTodo(id) with neither title nor completed fails with the
\* message "No fields to update..." reaching the caller verbatim, whether or
\* not the row exists, and the store is not accessed.
C6_NoFieldsMessage ==
    \A c \in Clients :
        ( /\ call[c].pc = "done"
          /\ call[c].op = "updateTodo"
          /\ call[c].args.id.v >= 1
          /\ call[c].args.title = Undefined
          /\ call[c].args.completed = Undefined ) =>
            /\ call[c].stmts = 0
            /\ call[c].out =
                  Thrown(NewError("No fields to update. Provide at least title or completed."))

GenericMessage(op) ==
    "Failed to "
    \o (CASE op = "todos" -> "fetch todos"
          [] op = "todo" -> "fetch todo"
          [] op = "createTodo" -> "create todo"
          [] op = "updateTodo" -> "update todo"
          [] op = "deleteTodo" -> "delete todo")
    \o ". Please try again later."

\* the store call of c threw, or its insert resolved to no row
StoreFailed(c) ==
    \/ call[c].awaited.kind = "throw"
    \/ call[c].op = "createTodo" /\ call[c].awaited = Returned(Null)

\* C7: on every non-validation failure (the store call throws an error with
\* any message text, or the insert returns no row) the caller gets exactly the
\* generic message of the operation, never the store's own text.
C7_GenericOnStoreFailure ==
    \A c \in Clients :
        call[c].pc = "done" /\ StoreFailed(c) =>
            call[c].out = Thrown(NewError(GenericMessage(call[c].op)))

\* C8: createTodo with a title of trimmed length below 1, "" included, fails
\* with "Title must be at least 1 character(s)", and of trimmed length above
\* 500 with "Title must not exceed 500 characters"; no row is inserted.
C8_TitleMessages ==
    \A c \in Clients :
        call[c].pc = "done" /\ call[c].op = "createTodo" =>
            LET n == TrimmedLength(call[c].args.title.v)
            IN  /\ n < 1 =>
                      /\ call[c].stmts = 0
                      /\ call[c].out = Thrown(NewError("Title must be at least 1 character(s)"))
                /\ n > 500 =>
                      /\ call[c].stmts = 0
                      /\ call[c].out = Thrown(NewError("Title must not exceed 500 characters"))

C10_StoredTitles ==
    \A id \in DOMAIN rows :
        LET s == rows[id].title
        IN  /\ Len(s) >= 1
            /\ Len(s) <= 500
            /\ CharAt(s, 1) \notin WhiteSpace
            /\ CharAt(s, Len(s)) \notin WhiteSpace

\* an update stored a title of the full length that arrived padded
C10_Witness ==
    \E c \in Clients :
        /\ call[c].pc = "done"
        /\ call[c].op = "updateTodo"
        /\ call[c].out.kind = "return"
        /\ call[c].out.value # Null
        /\ Len(call[c].args.title.v) > 500
        /\ Len(rows[call[c].args.id.v].title) = 500

\* the ids of the todos a list holds
ListedIds(list) == { list[i].id : i \in 1..Len(list) }

\* C11: todos() returns the stored rows newest first (createdAt
\* non-increasing): every row when the table holds at most 1000, otherwise
\* exactly 1000 of them, none older than a row left out; the call changes no
\* stored row.
C11_TodosNewestFirst ==
    [][\A c \in Clients :
          StatementRan(c) /\ call[c].op = "todos" =>
              /\ SameRows
              /\ call'[c].out.kind = "return"
              /\ LET list == call'[c].out.value
                     n == Cardinality(DOMAIN rows)
                 IN  /\ Len(list) = IF n <= 1000 THEN n ELSE 1000
                     /\ Cardinality(ListedIds(list)) = Len(list)
                     /\ \A i \in 1..Len(list) :
                           /\ list[i].id \in DOMAIN rows
                           /\ list[i] = AsTodo(rows[list[i].id])
                     /\ \A i \in 1..(Len(list) - 1) :
                           list[i].createdAt >= list[i + 1].createdAt
                     /\ \A id \in DOMAIN rows \ ListedIds(list) :
                           \A i \in 1..Len(list) :
                               list[i].createdAt >= rows[id].created_at]_vars

\* todos() has answered from a table of more than 1000 rows, leaving out a
\* row as old as one it returned
C11_Witness ==
    \E c \in Clients :
        /\ call[c].pc = "done"
        /\ call[c].op = "todos"
        /\ call[c].out.kind = "return"
        /\ Cardinality(DOMAIN rows) > 1000
        /\ Len(call[c].out.value) = 1000
        /\ \E id \in DOMAIN rows \ ListedIds(call[c].out.value) :
              \E i \in 1..1000 : call[c].out.value[i].createdAt = rows[id].created_at

\* the handler has answered client c's request
Answered(c) == req[c].phase = "sent"

\* the response carries these header names
HasHeaderNames(response, names) == names \subseteq DOMAIN response.headers

\* the response carries these headers with these values
HasHeaderValues(response, headers) ==
    \A k \in DOMAIN headers :
        k \in DOMAIN response.headers /\ response.headers[k] = headers[k]

CorsHeaderNames ==
    {"Access-Control-Allow-Origin", "Access-Control-Allow-Methods",
     "Access-Control-Allow-Headers", "Access-Control-Max-Age"}

SecurityHeaderValues ==
    ("X-Content-Type-Options" :> "nosniff")
    @@ ("X-Frame-Options" :> "DENY")
    @@ ("X-XSS-Protection" :> "1; mode=block")
    @@ ("Referrer-Policy" :> "strict-origin-when-cross-origin")

\* C12: every response the fetch handler returns, on every path (preflight,
\* 503, GraphQL success or error, 500), carries the four CORS headers and
\* the four security headers with their stated values.
C12_HeadersOnEveryResponse ==
    \A c \in Clients :
        Answered(c) =>
            /\ HasHeaderNames(req[c].response, CorsHeaderNames)
            /\ HasHeaderValues(req[c].response, SecurityHeaderValues)

\* the store handle is absent from the bindings of client c's request
NoStoreHandle(c) == req[c].env.DB \in {Undefined, Null}

\* C13: the handler checks the method, then the store handle.  An OPTIONS
\* request is answered 204 without body, with the CORS headers; any other
\* request without store handle is answered 503 with the body
\* {"error":"Service temporarily unavailable"}; for neither is the GraphQL
\* host invoked or a store statement issued, so the host is invoked only
\* for a request that is not OPTIONS and has the store handle.
C13_MethodThenStore ==
    \A c \in Clients :
        /\ req[c].phase # "none" /\ req[c].request.method = "OPTIONS" =>
              /\ Answered(c)
              /\ req[c].response.status = 204
              /\ req[c].response.body = Null
              /\ HasHeaderNames(req[c].response, CorsHeaderNames)
        /\ req[c].phase # "none" /\ req[c].request.method # "OPTIONS" /\ NoStoreHandle(c) =>
              /\ Answered(c)
              /\ req[c].response.status = 503
              /\ req[c].response.body = Str("{\"error\":\"Service temporarily unavailable\"}")
        /\ req[c].phase # "none" /\ (req[c].request.method = "OPTIONS" \/ NoStoreHandle(c)) =>
              /\ req[c].escaped = Pending
              /\ call[c].pc = "idle"
              /\ call[c].stmts = 0
        /\ req[c].phase = "host" \/ call[c].pc # "idle" \/ req[c].escaped # Pending =>
              req[c].request.method # "OPTIONS" /\ ~NoStoreHandle(c)

\* a preflight that arrived without store handle has been answered 204
C13_Witness ==
    \E c \in Clients :
        /\ Answered(c)
        /\ req[c].request.method = "OPTIONS"
        /\ NoStoreHandle(c)
        /\ req[c].response.status = 204

\* C14: when an exception escapes the GraphQL host, the handler does not
\* throw: it answers 500 with the body
\* {"error":"Internal server error","requestId":<id>}, <id> being the id
\* drawn for that request, and the body holds neither the exception's
\* message nor its stack.
C14_EscapedException ==
    \A c \in Clients :
        req[c].escaped.kind = "throw" =>
            /\ Answered(c)
            /\ req[c].response.status = 500
            /\ req[c].logs[1].message = "Incoming request"
            /\ req[c].response.body =
                  Str("{\"error\":\"Internal server error\",\"requestId\":\""
                      \o req[c].logs[1].data.requestId \o "\"}")
            /\ ~Includes(req[c].response.body.v, req[c].escaped.error.message)
            /\ req[c].escaped.error.isError =>
                  ~Includes(req[c].response.body.v, req[c].escaped.error.stack)

\* the second request of a behaviour has been answered 500 after an Error
\* escaped the host
C14_Witness ==
    \E c \in Clients :
        /\ Answered(c)
        /\ req[c].escaped.kind = "throw"
        /\ req[c].escaped.error.isError
        /\ req[c].response.status = 500
        /\ calls = 2
        /\ req[c].requestId = RandomUUID(2)

\* a log entry carries the id of client c's request
CarriesId(entry, c) ==
    /\ "requestId" \in DOMAIN entry.data
    /\ entry.data.requestId = req[c].requestId

\* C15: every log entry written while a request is handled, by the fetch
\* handler and by the resolver alike, carries the request's correlation id,
\* and every error response of the handler (503, 500) echoes that id in its
\* body.
C15_CorrelationId ==
    \A c \in Clients :
        req[c].phase # "none" =>
            /\ \A i \in 1..Len(req[c].logs) : CarriesId(req[c].logs[i], c)
            /\ \A i \in 1..Len(call[c].logs) : CarriesId(call[c].logs[i], c)
            /\ Answered(c) /\ req[c].response.status \in {503, 500} =>
                  Includes(req[c].response.body.v, req[c].requestId)

\* client c's updateTodo has run its statement on a row that exists
Updated(c) ==
    /\ call[c].pc = "done"
    /\ call[c].op = "updateTodo"
    /\ call[c].awaited.kind = "return"
    /\ call[c].awaited.value # Null

\* the stored form of a completed argument
AsStored(completed) == IF completed.v THEN 1 ELSE 0

\* C16: two concurrent updateTodo calls on the same existing id, one giving
\* only a valid title t and the other only completed = c, leave the row
\* with title trim(t) and completed c however their statements interleave;
\* a field both calls give ends with the value of one of the two calls.
\* Stated on the step in which the second of the two statements runs, the
\* row still being as the first one left it.
C16_ConcurrentUpdates ==
    [][\A c, d \in Clients :
          /\ c # d
          /\ Updated(c)
          /\ call[c].args.id.v \in DOMAIN rows
          /\ rows[call[c].args.id.v] = call[c].awaited.value.v
          /\ StatementRan(d)
          /\ call[d].op = "updateTodo"
          /\ call[d].args.id = call[c].args.id
          => LET row == rows'[call[c].args.id.v]
                 t == call[c].args.title
                 u == call[d].args.title
                 a == call[c].args.completed
                 b == call[d].args.completed
             IN  /\ t # Undefined /\ u = Undefined => IsTrimOf(row.title, t.v)
                 /\ t = Undefined /\ u # Undefined => IsTrimOf(row.title, u.v)
                 /\ a # Undefined /\ b = Undefined => row.completed = AsStored(a)
                 /\ a = Undefined /\ b # Undefined => row.completed = AsStored(b)
                 /\ t # Undefined /\ u # Undefined =>
                       IsTrimOf(row.title, t.v) \/ IsTrimOf(row.title, u.v)
                 /\ a # Undefined /\ b # Undefined =>
                       row.completed \in {AsStored(a), AsStored(b)}]_vars

\* a title-only and a completed-only update of the last seed row have both
\* run, the completed-only one first
C16_Witness ==
    \E c, d \in Clients :
        /\ c # d /\ Updated(c) /\ Updated(d)
        /\ call[c].args = Args(Num(3), Str(Rep(" ", MaxPad) \o Core(1) \o Rep("\t", MaxPad)), Undefined)
        /\ call[d].args = Args(Num(3), Undefined, Bool(TRUE))
        /\ call[d].awaited.value.v.title = SeedRows[3].title
        /\ rows[3].title = Core(1)
        /\ rows[3].completed = 1

====
